---- MODULE Spec2Model ----
(***************************************************************************)
(* Model of src/bot.py: a Discord bot with one command, !weather <city>.   *)
(*                                                                         *)
(*   clean_city_name   the normaliser of the user's text (a pure function) *)
(*   get_weather       one HTTP GET to the weather provider, classified    *)
(*   weather_command   the command handler: normalise, look up, reply      *)
(*                                                                         *)
(* Text is modelled as a sequence of tokens.  For clean_city_name a token  *)
(* is one character; elsewhere a token is a literal piece of a message.    *)
(***************************************************************************)
EXTENDS Integers, Sequences, FiniteSets, TLC

VARIABLES
    cc_pc,      \* the normaliser harness: "input", "once", "twice"
    cc_in,      \* the raw text given to clean_city_name
    cc_out,     \* clean_city_name(cc_in)
    cc_out2,    \* clean_city_name(cc_out)
    inv         \* the command invocations: one coroutine frame each

vars == <<cc_pc, cc_in, cc_out, cc_out2, inv>>

(***************************************************************************)
(* Bounds.                                                                 *)
(***************************************************************************)
MaxLen == 3             \* longest raw text given to the normaliser harness
NumInvocations == 2     \* command invocations that may be in flight together

(***************************************************************************)
(* Characters.  One representative (or two) of every class the regular     *)
(* expression of clean_city_name distinguishes.                            *)
(*   "a" "Z"     Latin letters            (a-z, A-Z)                       *)
(*   "ya"        Cyrillic letter in the range а-я / А-Я                    *)
(*   "yo"        Cyrillic ё / Ё, outside that range, listed on its own     *)
(*   "-"         the hyphen                                                *)
(*   " "         the space                                                 *)
(*   "TAB" "LF"  whitespace other than the space                           *)
(*   "FS"        U+001C: a control character that \s and str.split treat   *)
(*               as whitespace                                             *)
(*   "BEL"       a control character that is not whitespace                *)
(*   "1"         a digit                                                   *)
(*   "!"         punctuation                                               *)
(*   "e'"        a letter of neither alphabet range (é)                    *)
(***************************************************************************)
LatinLetters == {"a", "Z"}
CyrillicLetters == {"ya", "yo"}
Hyphen == "-"
Space == " "
Whitespace == {Space, "TAB", "LF", "FS"}
ControlChars == {"TAB", "LF", "FS", "BEL"}
Digits == {"1"}
Punctuation == {"!"}
OtherLetters == {"e'"}
Alphabet ==
    LatinLetters \cup CyrillicLetters \cup {Hyphen} \cup Whitespace
        \cup ControlChars \cup Digits \cup Punctuation \cup OtherLetters

\* the strings of at most n characters
StringsUpTo(n) == UNION {[1..k -> Alphabet] : k \in 0..n}

(***************************************************************************)
(* clean_city_name, step by step as the code computes it.                  *)
(***************************************************************************)
\* the character class [a-zA-Zа-яА-ЯёЁ\s-]: what re.sub keeps
KeptChar(c) == c \in LatinLetters \cup CyrillicLetters \cup Whitespace \cup {Hyphen}

\* Python's whitespace test, shared by \s, str.strip() and str.split()
IsSpace(c) == c \in Whitespace

\* re.sub(..., count=1): only the first character outside the class is removed
RECURSIVE ReSubFirstOnly(_)
ReSubFirstOnly(s) ==
    IF s = <<>> THEN <<>>
    ELSE IF KeptChar(Head(s)) THEN <<Head(s)>> \o ReSubFirstOnly(Tail(s))
    ELSE Tail(s)
\* re.sub(r"[^...]", "", s): every character outside the class is removed
ReSub(s) == SelectSeq(s, KeptChar)

\* str.strip(): leading and trailing whitespace removed
RECURSIVE LStrip(_)
LStrip(s) == IF s # <<>> /\ IsSpace(Head(s)) THEN LStrip(Tail(s)) ELSE s
RECURSIVE RStrip(_)
RStrip(s) ==
    IF s # <<>> /\ IsSpace(s[Len(s)]) THEN RStrip(SubSeq(s, 1, Len(s) - 1)) ELSE s
Strip(s) == RStrip(LStrip(s))

\* str.split() with no separator: the maximal runs of non-whitespace
RECURSIVE SplitFrom(_, _, _)
SplitFrom(s, word, words) ==
    IF s = <<>> THEN (IF word = <<>> THEN words ELSE Append(words, word))
    ELSE IF IsSpace(Head(s))
         THEN SplitFrom(Tail(s), <<>>,
                        IF word = <<>> THEN words ELSE Append(words, word))
         ELSE SplitFrom(Tail(s), Append(word, Head(s)), words)
\* str.split(' '): splits at every single space and at nothing else
RECURSIVE SplitAtSpaceFrom(_, _, _)
SplitAtSpaceFrom(s, word, words) ==
    IF s = <<>> THEN Append(words, word)
    ELSE IF Head(s) = Space
         THEN SplitAtSpaceFrom(Tail(s), <<>>, Append(words, word))
         ELSE SplitAtSpaceFrom(Tail(s), Append(word, Head(s)), words)
SplitAtSpace(s) == SplitAtSpaceFrom(s, <<>>, <<>>)
Split(s) == SplitFrom(s, <<>>, <<>>)

\* sep.join(words)
RECURSIVE Join(_, _)
Join(sep, words) ==
    IF words = <<>> THEN <<>>
    ELSE IF Len(words) = 1 THEN words[1]
    ELSE words[1] \o sep \o Join(sep, Tail(words))

clean_city_name(city_name) == Join(<<Space>>, Split(Strip(ReSub(city_name))))

(***************************************************************************)
(* The normaliser harness: apply clean_city_name to a raw text, then to    *)
(* its own result.                                                         *)
(***************************************************************************)
InitClean ==
    /\ cc_pc = "input"
    /\ cc_in \in StringsUpTo(MaxLen)
    /\ cc_out = <<>>
    /\ cc_out2 = <<>>
    /\ inv = <<>>

CleanOnce ==
    /\ cc_pc = "input"
    /\ cc_pc' = "once"
    /\ cc_out' = clean_city_name(cc_in)
    /\ UNCHANGED <<cc_in, cc_out2, inv>>

CleanTwice ==
    /\ cc_pc = "once"
    /\ cc_pc' = "twice"
    /\ cc_out2' = clean_city_name(cc_out)
    /\ UNCHANGED <<cc_in, cc_out, inv>>

NextClean == CleanOnce \/ CleanTwice

SpecClean == InitClean /\ [][NextClean]_vars

(***************************************************************************)
(* JSON values, as response.json() decodes them into Python objects.       *)
(* A dict is a record over the keys the code looks at; a key the dict does *)
(* not hold is mapped to Absent.                                           *)
(***************************************************************************)
Absent == [t |-> "absent"]
Null == [t |-> "null"]
Str(s) == [t |-> "str", v |-> s]
Num(n) == [t |-> "num", v |-> n]
Arr(elems) == [t |-> "arr", v |-> elems]
Obj(fields) == [t |-> "obj", v |-> fields]

\* the outcome of evaluating a Python expression: a value or a raised exception
Returned(x) == [exc |-> "none", val |-> x]
Raised(e) == [exc |-> e, val |-> Absent]

\* whether needle occurs in text as a contiguous run (Python's str in str)
IsSubstr(needle, text) ==
    \E k \in 0..(Len(text) - Len(needle)) :
        SubSeq(text, k + 1, k + Len(needle)) = needle

\* d[key] with a str key: KeyError on a dict without the key, TypeError on
\* anything that is not a dict (None, a list, a str, a number)
GetItem(d, key) ==
    IF d.t = "obj"
    THEN IF key \in DOMAIN d.v /\ d.v[key] # Absent
         THEN Returned(d.v[key])
         ELSE Raised("KeyError")
    ELSE Raised("TypeError")

\* d[k1][k2]...: the subscripts applied left to right, the first exception wins
RECURSIVE GetPath(_, _)
GetPath(d, path) ==
    IF path = <<>> THEN Returned(d)
    ELSE LET r == GetItem(d, Head(path))
         IN  IF r.exc # "none" THEN r ELSE GetPath(r.val, Tail(path))

\* `piece in d` for a str piece: key membership on a dict, element membership
\* on a list, substring on a str, TypeError on None and on a number
In(piece, d) ==
    CASE d.t = "obj" -> Returned(Len(piece) = 1 /\ piece[1] \in DOMAIN d.v
                                 /\ d.v[piece[1]] # Absent)
      [] d.t = "arr" -> Returned(\E k \in 1..Len(d.v) : d.v[k] = Str(piece))
      [] d.t = "str" -> Returned(IsSubstr(piece, d.v))
      [] OTHER -> Raised("TypeError")

\* "http:" + x: concatenation of str with anything but a str is a TypeError
Concat(prefix, x) ==
    IF x.t = "str" THEN Returned(Str(prefix \o x.v)) ELSE Raised("TypeError")

\* f"{x}" for the values the code formats
Format(x) ==
    CASE x.t = "str" -> x.v
      [] x.t = "num" -> <<ToString(x.v)>>
      [] OTHER -> <<"None">>

(***************************************************************************)
(* get_weather.                                                            *)
(***************************************************************************)
HTTP_OK == 200

None == [none |-> TRUE]
Text(s) == [text |-> s]

NetworkErrorText == <<"Network error. Please try again later.">>
CityNotFoundText == <<"City not found. Please check the spelling.">>
ParseErrorText == <<"Error parsing API data.">>
ApiErrorText(error_msg) == <<"API error: ">> \o Format(error_msg)
HttpErrorText(status) == <<"Request error: HTTP ", ToString(status)>>
NoMatchNeedle == <<"No", " ", "matching", " ", "location", " ", "found">>

\* what get_weather does: return a (weather_data, error) pair, raise, or
\* go on to the next await
GwReturn(weather_data, error) ==
    [exc |-> "none", weather |-> weather_data, error |-> error]
GwRaise(e) == [exc |-> e, weather |-> None, error |-> None]
GwContinue == [exc |-> "continue", weather |-> None, error |-> None]

\* the request URL (line 39)
RequestUrl(city) ==
    <<"http://api.weatherapi.com/v1/current.json?key=", "WEATHER_API_KEY", "&q=">>
        \o city \o <<"&lang=en">>

\* exceptions that are subclasses of aiohttp.ClientError
ClientErrors == {"connection_refused", "dns_failure", "payload_error",
                 "content_type_error"}

\* line 46, with a server-error-only test in place of != 200
OnlyServerErrors(status) == status >= 500
\* line 46: response.status != 200
HttpFailed(status) == status # HTTP_OK

\* line 54, with equality in place of containment
IsExactlyNoMatch(error_msg) ==
    IF error_msg.t = "str" THEN Returned(error_msg.v = NoMatchNeedle)
    ELSE Raised("TypeError")
\* line 54: "No matching location found" in error_msg
NoMatchingLocation(error_msg) == In(NoMatchNeedle, error_msg)

\* lines 52-56: the body holds an "error"
ErrorBranch(data) ==
    LET error_msg == GetPath(data, <<"error", "message">>)
    IN  IF error_msg.exc # "none" THEN GwRaise(error_msg.exc)
        ELSE LET found == NoMatchingLocation(error_msg.val)
             IN  IF found.exc # "none" THEN GwRaise(found.exc)
                 ELSE IF found.val THEN GwReturn(None, Text(CityNotFoundText))
                 ELSE GwReturn(None, Text(ApiErrorText(error_msg.val)))

\* lines 58-72: the five fields, read in the code's order inside try/except
\* KeyError; any other exception leaves the try block
ExtractBranch(data) ==
    LET location == GetPath(data, <<"location", "name">>)
        country == GetPath(data, <<"location", "country">>)
        temp == GetPath(data, <<"current", "temp_c">>)
        condition == GetPath(data, <<"current", "condition", "text">>)
        iconpath == GetPath(data, <<"current", "condition", "icon">>)
        icon == IF iconpath.exc # "none" THEN iconpath
                ELSE Concat(<<"http:">>, iconpath.val)
        steps == <<location, country, temp, condition, icon>>
        failed == {k \in 1..Len(steps) : steps[k].exc # "none"}
    IN  IF failed = {}
        THEN GwReturn([location |-> location.val, country |-> country.val,
                       temp |-> temp.val, condition |-> condition.val,
                       icon |-> icon.val], None)
        ELSE LET first == CHOOSE k \in failed : \A m \in failed : k <= m
             IN  IF steps[first].exc = "KeyError"
                 THEN GwReturn(None, Text(ParseErrorText))
                 ELSE GwRaise(steps[first].exc)

\* lines 52-72: the decoded body classified
ClassifyData(data) ==
    LET has_error == In(<<"error">>, data)
    IN  IF has_error.exc # "none" THEN GwRaise(has_error.exc)
        ELSE IF has_error.val THEN ErrorBranch(data)
        ELSE ExtractBranch(data)

\* lines 44-47 and 73-75: session.get(url, timeout=10) completes or fails.
\* A refused connection and a DNS failure are aiohttp.ClientError; the
\* elapsed total timeout is asyncio.TimeoutError, which is not.
AfterGet(response) ==
    CASE response.head \in ClientErrors -> GwReturn(None, Text(NetworkErrorText))
      [] response.head = "timeout" -> GwRaise("TimeoutError")
      [] OTHER -> IF HttpFailed(response.status)
                  THEN GwReturn(None, Text(HttpErrorText(response.status)))
                  ELSE GwContinue

\* lines 49-75: await response.json() completes or fails, then the body is
\* classified.  ContentTypeError and ClientPayloadError are ClientError;
\* json.JSONDecodeError and asyncio.TimeoutError are not.
AfterJson(response) ==
    CASE response.body \in ClientErrors -> GwReturn(None, Text(NetworkErrorText))
      [] response.body = "timeout" -> GwRaise("TimeoutError")
      [] response.body = "json_decode_error" -> GwRaise("JSONDecodeError")
      [] OTHER -> ClassifyData(response.data)

(***************************************************************************)
(* What the provider and the network can answer to one GET.                *)
(*   head    "ok" (a status line arrived), or the transport failure of     *)
(*           session.get                                                   *)
(*   status  the HTTP status                                               *)
(*   body    "json" (the body decodes to data), or the failure of          *)
(*           response.json()                                               *)
(*   data    the decoded body                                              *)
(***************************************************************************)
NoResponse == [head |-> "none", status |-> 0, body |-> "none", data |-> Absent]
TransportFailure(h) == [head |-> h, status |-> 0, body |-> "none", data |-> Absent]
Answer(s, d) == [head |-> "ok", status |-> s, body |-> "json", data |-> d]
BadBody(s, b) == [head |-> "ok", status |-> s, body |-> b, data |-> Absent]

Statuses == {200, 404, 500}
GetFailures == {"connection_refused", "dns_failure", "timeout"}
JsonFailures == {"content_type_error", "payload_error", "json_decode_error",
                 "timeout"}

NoMatchMessage == NoMatchNeedle \o <<".">>
Messages ==
    { NoMatchMessage,
      <<"q", ":", " ">> \o NoMatchNeedle,
      <<"no", " ", "matching", " ", "location", " ", "found", ".">>,
      <<"API", " ", "key", " ", "is", " ", "invalid", ".">> }

Body(e, l, c) == Obj([error |-> e, location |-> l, current |-> c])
ErrorObj(m) == Obj([message |-> m])
LocationObj(n, c) == Obj([name |-> n, country |-> c])
ConditionObj(t, ic) == Obj([text |-> t, icon |-> ic])
CurrentObj(t, c) == Obj([temp_c |-> t, condition |-> c])

ErrorValues ==
    {Absent, Null} \cup {ErrorObj(m) : m \in {Absent, Null} \cup {Str(x) : x \in Messages}}
LocationValues ==
    {Absent, Null}
        \cup {LocationObj(n, c) : n \in {Absent, Str(<<"London">>)},
                                  c \in {Absent, Str(<<"UK">>)}}
ConditionValues ==
    {Absent, Null}
        \cup {ConditionObj(t, ic) : t \in {Absent, Str(<<"Cloudy">>)},
                                    ic \in {Absent, Str(<<"//x/icon.png">>), Num(7)}}
CurrentValues ==
    {Absent, Null}
        \cup {CurrentObj(t, c) : t \in {Absent, Num(15)}, c \in ConditionValues}

\* every decoded body of the model: a dict over the three top-level keys, and
\* the bodies that are not a dict
Bodies ==
    {Null, Arr(<<>>), Arr(<<Str(<<"error">>)>>)}
        \cup {Body(e, l, c) : e \in ErrorValues, l \in LocationValues,
                              c \in CurrentValues}

AllResponses ==
    {TransportFailure(h) : h \in GetFailures}
        \cup {Answer(s, d) : s \in Statuses, d \in Bodies}
        \cup {BadBody(s, b) : s \in Statuses, b \in JsonFailures}

\* the documented success body and its parts (spec section 8)
London == LocationObj(Str(<<"London">>), Str(<<"UK">>))
Cloudy == ConditionObj(Str(<<"Cloudy">>), Str(<<"//x/icon.png">>))
Current15 == CurrentObj(Num(15), Cloudy)

\* one response for every way through get_weather
SampleResponses ==
    { Answer(200, Body(Absent, London, Current15)),
      Answer(200, Body(Absent, London, CurrentObj(Num(15), Absent))),
      Answer(200, Body(Absent, Null, Current15)),
      Answer(200, Body(ErrorObj(Str(NoMatchMessage)), London, Current15)),
      Answer(200, Body(ErrorObj(Str(<<"API", " ", "key", " ", "is", " ", "invalid", ".">>)),
                       Absent, Absent)),
      Answer(200, Body(ErrorObj(Absent), Absent, Absent)),
      Answer(500, Body(Absent, London, Current15)),
      Answer(404, Body(ErrorObj(Str(NoMatchMessage)), Absent, Absent)),
      TransportFailure("connection_refused"),
      TransportFailure("timeout"),
      BadBody(200, "content_type_error"),
      BadBody(200, "json_decode_error"),
      BadBody(200, "timeout") }

(***************************************************************************)
(* The command as the user types it: !weather, with or without text after  *)
(* it.  The framework strips the text, so it is never blank.               *)
(***************************************************************************)
Missing == [given |-> FALSE, text |-> <<>>]
Given(s) == [given |-> TRUE, text |-> s]
Arguments ==
    { Missing,
      Given(<<"1", "!">>),
      Given(<<"a", "!">>),
      Given(<<"a", "1">>),
      Given(<<"ya", "TAB", "Z">>) }

(***************************************************************************)
(* weather_command: one coroutine frame per invocation.                    *)
(*   pc        "idle", "awaiting_get", "awaiting_json", "done", "failed"   *)
(*   arg       the argument of the command                                 *)
(*   city      the local city after line 84                                *)
(*   requests  the URLs this invocation has sent a GET to                  *)
(*   response  the local response of get_weather (line 44)                 *)
(*   outcome   what get_weather returned or raised (line 90)               *)
(*   replies   the messages sent with ctx.send                             *)
(*   fault     the exception that left the handler, "none" if none         *)
(***************************************************************************)
NotCalled == [exc |-> "not_called", weather |-> None, error |-> None]
Idle ==
    [pc |-> "idle", arg |-> Missing, city |-> <<>>, requests |-> <<>>,
     response |-> NoResponse, outcome |-> NotCalled, replies |-> <<>>,
     fault |-> "none"]

RejectText == <<"Please enter a city name, e.g., !weather London">>
TextMessage(s) == [kind |-> "text", content |-> s]
\* lines 96-101
Embed(weather_data) ==
    [kind |-> "embed",
     title |-> <<"Weather in ">> \o Format(weather_data.location)
                   \o <<", ">> \o Format(weather_data.country),
     description |-> Format(weather_data.condition) \o <<", ">>
                        \o Format(weather_data.temp) \o <<"C">>,
     thumbnail |-> Format(weather_data.icon)]

\* Python's truth value of the error of line 92: None and "" are false
Truthy(error) == error # None /\ error.text # <<>>

\* the response another invocation holds, as a module-level variable would
SharedResponse(i) ==
    LET waiting == {j \in DOMAIN inv : inv[j].pc = "awaiting_json"}
    IN  inv[CHOOSE j \in waiting : \A k \in waiting : j <= k].response
\* the local response of invocation i's get_weather frame (line 44)
ResponseOf(i) == inv[i].response

\* a GET answered from the requests already made, as a cache would
SessionGetCached(requests, url) ==
    IF \E j \in DOMAIN inv : \E k \in 1..Len(inv[j].requests) : inv[j].requests[k] = url
    THEN requests
    ELSE Append(requests, url)
\* line 44: session.get(url, timeout=10) sends one GET
SessionGet(requests, url) == Append(requests, url)

\* lines 90-102: get_weather has returned or raised; the handler replies
Finish(frame, outcome) ==
    IF outcome.exc # "none"
    THEN [frame EXCEPT !.pc = "failed", !.outcome = outcome, !.fault = outcome.exc]
    ELSE IF Truthy(outcome.error)
    THEN [frame EXCEPT !.pc = "done", !.outcome = outcome,
                       !.replies = Append(@, TextMessage(outcome.error.text))]
    ELSE [frame EXCEPT !.pc = "done", !.outcome = outcome,
                       !.replies = Append(@, Embed(outcome.weather))]

\* lines 81-90 and 37-44: the command is dispatched and the handler runs to
\* its first suspension.  city is a required keyword-only parameter: without
\* text after the command the framework raises MissingRequiredArgument and
\* the body never runs; the bot registers no error handler.
Dispatch(frame, a) ==
    IF ~a.given
    THEN [frame EXCEPT !.pc = "failed", !.arg = a,
                       !.fault = "MissingRequiredArgument"]
    ELSE LET city == clean_city_name(a.text)
         IN  IF city = <<>>
             THEN [frame EXCEPT !.pc = "done", !.arg = a, !.city = city,
                                !.replies = Append(@, TextMessage(RejectText))]
             ELSE [frame EXCEPT !.pc = "awaiting_get", !.arg = a, !.city = city,
                                !.requests = SessionGet(@, RequestUrl(city))]

Invoke(i, a) ==
    /\ inv[i].pc = "idle"
    /\ inv' = [inv EXCEPT ![i] = Dispatch(@, a)]
    /\ UNCHANGED <<cc_pc, cc_in, cc_out, cc_out2>>

\* session.get completes with a status line, or fails
ResponseArrives(i, r) ==
    /\ inv[i].pc = "awaiting_get"
    /\ LET frame == [inv[i] EXCEPT !.response = r]
           outcome == AfterGet(r)
       IN  inv' = [inv EXCEPT ![i] =
                     IF outcome.exc = "continue"
                     THEN [frame EXCEPT !.pc = "awaiting_json"]
                     ELSE Finish(frame, outcome)]
    /\ UNCHANGED <<cc_pc, cc_in, cc_out, cc_out2>>

\* response.json() completes, or fails
JsonArrives(i) ==
    /\ inv[i].pc = "awaiting_json"
    /\ inv' = [inv EXCEPT ![i] = Finish(@, AfterJson(ResponseOf(i)))]
    /\ UNCHANGED <<cc_pc, cc_in, cc_out, cc_out2>>

HarnessOff ==
    /\ cc_pc = "off"
    /\ cc_in = <<>>
    /\ cc_out = <<>>
    /\ cc_out2 = <<>>

\* the bot: NumInvocations commands, in flight together
Init ==
    /\ HarnessOff
    /\ inv = [i \in 1..NumInvocations |-> Idle]

Next ==
    \/ \E i \in DOMAIN inv : \E a \in Arguments : Invoke(i, a)
    \/ \E i \in DOMAIN inv : \E r \in SampleResponses : ResponseArrives(i, r)
    \/ \E i \in DOMAIN inv : JsonArrives(i)

Spec == Init /\ [][Next]_vars

\* one command, against everything the provider can answer
InitLookup ==
    /\ HarnessOff
    /\ inv = <<Idle>>

NextLookup ==
    \/ \E i \in DOMAIN inv : \E a \in Arguments : Invoke(i, a)
    \/ \E i \in DOMAIN inv : \E r \in AllResponses : ResponseArrives(i, r)
    \/ \E i \in DOMAIN inv : JsonArrives(i)

SpecLookup == InitLookup /\ [][NextLookup]_vars

(***************************************************************************)
(* Vocabulary of the properties.                                           *)
(***************************************************************************)
Frames == {inv[i] : i \in DOMAIN inv}
Dispatched(f) == f.pc # "idle"
Ended(f) == f.pc \in {"done", "failed"}
\* the normalized location of the invocation, computed from its argument
Normalized(f) == clean_city_name(f.arg.text)
HasLocation(f) == f.arg.given /\ Normalized(f) # <<>>

\* the body of the response has been decoded and classified
Decoded(f) ==
    /\ Ended(f)
    /\ f.response.head = "ok"
    /\ f.response.status = 200
    /\ f.response.body = "json"

\* the member at path of a decoded body, Absent when any dict on the way is
\* missing or is not a dict
RECURSIVE Member(_, _)
Member(d, path) ==
    IF path = <<>> THEN d
    ELSE IF d.t = "obj" /\ Head(path) \in DOMAIN d.v
         THEN Member(d.v[Head(path)], Tail(path))
         ELSE Absent
RequiredFields ==
    { <<"location", "name">>, <<"location", "country">>, <<"current", "temp_c">>,
      <<"current", "condition", "text">>, <<"current", "condition", "icon">> }
AllFieldsPresent(d) == \A path \in RequiredFields : Member(d, path) # Absent
\* the body holds "error": as a key of a dict, or as an element of a list
SignalsError(d) ==
    \/ Member(d, <<"error">>) # Absent
    \/ d.t = "arr" /\ \E k \in 1..Len(d.v) : d.v[k] = Str(<<"error">>)

(***************************************************************************)
(* C1.  An invocation whose argument is missing, or whose normalized       *)
(* location is empty, is answered with the rejection message and sends no  *)
(* GET; no GET is ever sent for an empty location.                         *)
(***************************************************************************)
C1_RejectedBeforeAnyRequest ==
    \A f \in Frames :
        /\ (Dispatched(f) /\ ~HasLocation(f)) =>
              /\ f.replies = <<TextMessage(RejectText)>>
              /\ f.requests = <<>>
        /\ \A k \in 1..Len(f.requests) : f.requests[k] # RequestUrl(<<>>)

(***************************************************************************)
(* C2.  Every transport failure of the GET (connection refused, DNS        *)
(* failure, the timeout elapsing) makes get_weather return                 *)
(* (None, "Network error. Please try again later."); none leaves it as an  *)
(* exception.                                                              *)
(***************************************************************************)
C2_TransportFailureIsNetworkError ==
    \A f \in Frames :
        (f.response.head \in GetFailures) =>
            f.outcome = GwReturn(None, Text(NetworkErrorText))

(***************************************************************************)
(* C3.  An invocation with a non-empty normalized location ends, whatever  *)
(* the provider does, with exactly one reply (the embed on success, the    *)
(* error's text otherwise) and with no exception leaving the handler.      *)
(***************************************************************************)
C3_ExactlyOneReply ==
    \A f \in Frames :
        (Ended(f) /\ HasLocation(f)) =>
            /\ f.fault = "none"
            /\ Len(f.replies) = 1
            /\ \/ f.replies[1].kind = "embed" /\ f.outcome.weather # None
               \/ /\ f.replies[1].kind = "text"
                  /\ f.outcome.error = Text(f.replies[1].content)

(***************************************************************************)
(* C4.  A status other than 200 makes get_weather return the HTTP error    *)
(* whose message holds the status number, whatever the body is.            *)
(***************************************************************************)
C4_HttpErrorWhateverTheBody ==
    \A f \in Frames :
        (f.response.head = "ok" /\ f.response.status # 200) =>
            /\ f.pc = "done"
            /\ f.outcome = GwReturn(None,
                   Text(<<"Request error: HTTP ", ToString(f.response.status)>>))
            /\ f.replies = <<TextMessage(f.outcome.error.text)>>

C4_Witness ==
    \E f \in Frames :
        /\ f.pc = "done"
        /\ f.response = Answer(500, Body(ErrorObj(Str(NoMatchMessage)), London, Current15))
        /\ f.outcome.error = Text(<<"Request error: HTTP ", "500">>)

(***************************************************************************)
(* C5.  For a 200 response whose body holds an error with a message:       *)
(* get_weather returns "City not found" when the message contains          *)
(* "No matching location found", and otherwise the API error carrying the  *)
(* message verbatim; the weather fields of the same body change nothing.   *)
(***************************************************************************)
C5_ErrorMessageClassified ==
    \A f \in Frames :
        LET message == Member(f.response.data, <<"error", "message">>)
        IN  (Decoded(f) /\ message.t = "str") =>
                IF IsSubstr(NoMatchNeedle, message.v)
                THEN f.outcome = GwReturn(None, Text(CityNotFoundText))
                ELSE f.outcome = GwReturn(None, Text(<<"API error: ">> \o message.v))

C5_Witness ==
    \E f \in Frames :
        /\ Decoded(f)
        /\ AllFieldsPresent(f.response.data)
        /\ Member(f.response.data, <<"error", "message">>) = Str(NoMatchMessage)
        /\ f.replies = <<TextMessage(CityNotFoundText)>>

(***************************************************************************)
(* C6.  For a 200 response whose body signals no error: a required field   *)
(* absent from the body makes get_weather return the parse error and no    *)
(* weather data; weather data is returned only when all five fields are    *)
(* present, its icon being the provider's path after "http:".              *)
(***************************************************************************)
C6_MissingFieldIsParseError ==
    \A f \in Frames :
        (Decoded(f) /\ ~SignalsError(f.response.data)) =>
            /\ ~AllFieldsPresent(f.response.data) =>
                  f.outcome = GwReturn(None, Text(ParseErrorText))
            /\ f.outcome.weather # None =>
                  /\ AllFieldsPresent(f.response.data)
                  /\ f.outcome.weather.icon =
                        Str(<<"http:">> \o Member(f.response.data,
                                               <<"current", "condition", "icon">>).v)

(***************************************************************************)
(* C7.  Every invocation that reaches get_weather sends exactly one GET,   *)
(* for its own location, however the attempt ends; invocations with the    *)
(* same location send one GET each.                                        *)
(***************************************************************************)
C7_OneGetPerInvocation ==
    \A f \in Frames :
        IF Dispatched(f) /\ HasLocation(f)
        THEN f.requests = <<RequestUrl(Normalized(f))>>
        ELSE f.requests = <<>>

C7_Witness ==
    \E i, j \in DOMAIN inv :
        /\ i # j
        /\ Ended(inv[i]) /\ Ended(inv[j])
        /\ inv[i].outcome.error = Text(NetworkErrorText)
        /\ inv[i].city = inv[j].city
        /\ Len(inv[i].requests) + Len(inv[j].requests) = 2

(***************************************************************************)
(* C8.  clean_city_name is idempotent: applied to its own result it        *)
(* returns that result.                                                    *)
(***************************************************************************)
C8_Idempotent == cc_pc = "twice" => cc_out2 = cc_out

C8_Witness ==
    /\ cc_pc = "twice"
    /\ cc_in = <<"1", " ", "a">>
    /\ cc_out = <<"a">>

RunAlone(a, r) ==
    LET started == Dispatch(Idle, a)
        got == [started EXCEPT !.response = r]
        outcome == AfterGet(r)
    IN  IF started.pc # "awaiting_get" THEN started
        ELSE IF outcome.exc = "continue" THEN Finish(got, AfterJson(r))
        ELSE Finish(got, outcome)

C10_OwnArgumentOwnResponse ==
    \A f \in Frames : Ended(f) => f = RunAlone(f.arg, f.response)

C10_Witness ==
    \E i, j \in DOMAIN inv :
        /\ inv[i].pc = "done"
        /\ inv[i].replies[1].kind = "embed"
        /\ inv[j].pc = "awaiting_json"
        /\ inv[j].city # inv[i].city
        /\ inv[j].response # inv[i].response

====
